---------------------------- MODULE Spec2Model ----------------------------
(***************************************************************************)
(* CHIP-8 interpreter (chip-aight): the Memory module                      *)
(* (src/components/memory.rs), the Cpu fetch-decode-dispatch engine        *)
(* (src/components/cpu.rs) and the part of the run loop that calls it      *)
(* (src/main.rs).                                                          *)
(*                                                                         *)
(* Representation.                                                         *)
(*  - Memory.space, a [u8; 8192] that Default fills with 0, is kept as the *)
(*    function from the indices of its non-zero bytes to their values;     *)
(*    every index outside the domain holds 0.  SpaceGet / SpaceSet read    *)
(*    and write one byte and keep that form canonical.                     *)
(*  - the framebuffer [[bool; 32]; 64] is kept as the set of <<col, row>>  *)
(*    whose pixel is true.                                                 *)
(*  - a Rust panic (a failed expect, an index out of range, an arithmetic  *)
(*    overflow in a build with overflow checks) ends the process: the      *)
(*    operation's outcome carries a non-empty `panic` message and nothing  *)
(*    runs afterwards.  Whether arithmetic overflow panics or wraps is a   *)
(*    property of the build profile (overflow_checks), fixed per run.      *)
(***************************************************************************)
EXTENDS Integers, Naturals, Sequences, FiniteSets, TLC

VARIABLES
    cpu,             \* the Cpu struct (cpu.rs:45-96)
    mem,             \* the Memory struct (memory.rs:15-17)
    state,           \* the framebuffer owned by main (main.rs:111)
    is_key_pressed,  \* the key snapshot owned by main (main.rs:107)
    keep_trying,     \* main's latch that stops stepping after an error (main.rs:116)
    overflow_checks, \* build profile: TRUE = arithmetic overflow panics
    result,          \* what the last run_cycle call produced
    last,            \* history: the inputs of the last run_cycle call
    trace,           \* history: the calls and returns executed so far
    steps,           \* history: number of run_cycle calls made
    api,             \* history: the last direct call of a Memory method
    ticks            \* history: number of 16 ms draw periods that have elapsed

vars == <<cpu, mem, state, is_key_pressed, keep_trying, overflow_checks,
          result, last, trace, steps, api, ticks>>

-----------------------------------------------------------------------------
(* Machine integers *)

U8 == 256

U16 == 65536

\* Memory::START, the first word address a program may write
START == 512

\* Memory::MAX, the last word address
MAX == 4095

\* Memory::BYTE_MAX, the length of Memory.space
BYTE_MAX == 8192

\* Memory::USABLE_SPACE, the longest program in bytes
USABLE_SPACE == (MAX - START + 1) * 2

NoPanic == ""

RECURSIVE BitAnd(_, _)
\* a & b on naturals
BitAnd(a, b) ==
    IF a = 0 \/ b = 0 THEN 0
    ELSE (a % 2) * (b % 2) + 2 * BitAnd(a \div 2, b \div 2)

RECURSIVE BitOr(_, _)
\* a | b on naturals
BitOr(a, b) ==
    IF a = 0 THEN b
    ELSE IF b = 0 THEN a
    ELSE (IF (a % 2) + (b % 2) > 0 THEN 1 ELSE 0) + 2 * BitOr(a \div 2, b \div 2)

RECURSIVE BitXor(_, _)
\* a ^ b on naturals
BitXor(a, b) ==
    IF a = 0 THEN b
    ELSE IF b = 0 THEN a
    ELSE (((a % 2) + (b % 2)) % 2) + 2 * BitXor(a \div 2, b \div 2)

RECURSIVE Pow2(_)
Pow2(k) == IF k = 0 THEN 1 ELSE 2 * Pow2(k - 1)

\* a >> k
Shr(a, k) == a \div Pow2(k)

-----------------------------------------------------------------------------
(* Memory (memory.rs) *)

\* self.space[idx], idx < BYTE_MAX
SpaceGet(space, idx) == IF idx \in DOMAIN space THEN space[idx] ELSE 0

\* self.space[idx] = byte, idx < BYTE_MAX
SpaceSet(space, idx, byte) ==
    LET keep == IF byte = 0 THEN DOMAIN space \ {idx} ELSE DOMAIN space \cup {idx}
    IN  [b \in keep |-> IF b = idx THEN byte ELSE space[b]]

\* Memory::default(): every byte 0
MemoryDefault == [space |-> <<>>]

\* `(pos * 2) as usize` with pos: u16: the product is formed in u16
PosU(pos) == (pos * 2) % U16

\* the product pos * 2 leaves u16
PosOverflows(pos) == pos * 2 >= U16

\* write storing the low byte first and the high byte second
write_low_byte_first(m, pos, data) ==
    IF overflow_checks /\ PosOverflows(pos)
    THEN [mem |-> m, ok |-> FALSE, ret |-> "", panic |-> "attempt to multiply with overflow"]
    ELSE IF pos >= START /\ pos <= MAX
    THEN [mem |-> [m EXCEPT !.space =
                     SpaceSet(SpaceSet(m.space, PosU(pos), BitAnd(data, 255)),
                              PosU(pos) + 1, Shr(data, 8) % U8)],
          ok |-> TRUE, ret |-> "Ok", panic |-> NoPanic]
    ELSE [mem |-> m, ok |-> FALSE, ret |-> "Out of bounds exception", panic |-> NoPanic]

\* Memory::write(pos, data)
write(m, pos, data) ==
    IF overflow_checks /\ PosOverflows(pos)
    THEN [mem |-> m, ok |-> FALSE, ret |-> "", panic |-> "attempt to multiply with overflow"]
    ELSE IF pos >= START /\ pos <= MAX
    THEN [mem |-> [m EXCEPT !.space =
                     SpaceSet(SpaceSet(m.space, PosU(pos), Shr(data, 8) % U8),
                              PosU(pos) + 1, BitAnd(data, 255))],
          ok |-> TRUE, ret |-> "Ok", panic |-> NoPanic]
    ELSE [mem |-> m, ok |-> FALSE, ret |-> "Out of bounds exception", panic |-> NoPanic]

\* Memory::unbound_write(pos, data)
unbound_write(m, pos, data) ==
    IF overflow_checks /\ PosOverflows(pos)
    THEN [mem |-> m, ok |-> FALSE, ret |-> "", panic |-> "attempt to multiply with overflow"]
    ELSE IF pos <= MAX
    THEN [mem |-> [m EXCEPT !.space =
                     SpaceSet(SpaceSet(m.space, PosU(pos), Shr(data, 8) % U8),
                              PosU(pos) + 1, BitAnd(data, 255))],
          ok |-> TRUE, ret |-> "Ok", panic |-> NoPanic]
    ELSE [mem |-> m, ok |-> FALSE, ret |-> "Out of bounds exception", panic |-> NoPanic]

\* Memory::read(pos): on success val is the word (head << 8) | tail
read(m, pos) ==
    IF overflow_checks /\ PosOverflows(pos)
    THEN [ok |-> FALSE, val |-> 0, ret |-> "", panic |-> "attempt to multiply with overflow"]
    ELSE IF pos <= MAX
    THEN [ok |-> TRUE,
          val |-> BitOr(SpaceGet(m.space, PosU(pos)) * 256, SpaceGet(m.space, PosU(pos) + 1)),
          ret |-> "Ok", panic |-> NoPanic]
    ELSE [ok |-> FALSE, val |-> 0, ret |-> "Out of bounds exception", panic |-> NoPanic]

\* the bytes of a slice written one after the other from index pos on, as the
\* copy loops `space[pos + idx] = bytes[idx]` leave them (each index is written once)
SpaceCopy(space, pos, bytes) ==
    LET written == pos..(pos + Len(bytes) - 1)
        val(b)  == IF b \in written THEN bytes[b - pos + 1] ELSE space[b]
        keep    == (DOMAIN space \ written)
                      \cup {pos + idx : idx \in {k \in 0..(Len(bytes) - 1) : bytes[k + 1] # 0}}
    IN  [b \in keep |-> val(b)]

\* the copy loop of load from index pos: `self.space[pos + idx]` panics at the
\* first index outside the array, with the bytes before it written
CopyLoop(m, pos, program) ==
    IF pos + Len(program) <= BYTE_MAX
    THEN [mem |-> [m EXCEPT !.space = SpaceCopy(m.space, pos, program)],
          ok |-> TRUE, ret |-> "Ok", panic |-> NoPanic]
    ELSE [mem |-> [m EXCEPT !.space =
                     SpaceCopy(m.space, pos, SubSeq(program, 1, BYTE_MAX - pos))],
          ok |-> FALSE, ret |-> "", panic |-> "index out of bounds"]

\* load copying the image from byte index START instead of START * 2
load_at_byte_start(m, program) ==
    IF Len(program) <= USABLE_SPACE
    THEN CopyLoop(m, START, program)
    ELSE [mem |-> m, ok |-> FALSE, ret |-> "Program bigger than memory space",
          panic |-> NoPanic]

\* load accepting a program one byte longer than the usable space
load_accepts_one_more(m, program) ==
    IF Len(program) <= USABLE_SPACE + 1
    THEN CopyLoop(m, START * 2, program)
    ELSE [mem |-> m, ok |-> FALSE, ret |-> "Program bigger than memory space",
          panic |-> NoPanic]

\* Memory::load(program), program a sequence of bytes
load(m, program) ==
    IF Len(program) <= USABLE_SPACE
    THEN CopyLoop(m, START * 2, program)
    ELSE [mem |-> m, ok |-> FALSE, ret |-> "Program bigger than memory space",
          panic |-> NoPanic]

-----------------------------------------------------------------------------
(* Cpu (cpu.rs) *)

Regs == 0..15

\* Cpu::default()
CpuDefault ==
    [v |-> [r \in Regs |-> 0],
     stack |-> <<>>,
     program_counter |-> 512,
     i |-> 0,
     dt |-> 0,
     st |-> 0,
     is_key_pressed_temp |-> <<>>,       \* <<>> is None, <<keys>> is Some(keys)
     store_load_quirk |-> FALSE,
     shift_y |-> FALSE,
     drawn |-> FALSE]

\* a handler that returned its tag; run_cycle wraps a tag in Ok
Done(c, tag) == [cpu |-> c, ok |-> TRUE, ret |-> tag, panic |-> NoPanic]

\* a handler that returned Err(msg)
Fail(c, msg) == [cpu |-> c, ok |-> FALSE, ret |-> msg, panic |-> NoPanic]

\* a handler that panicked, with the Cpu as the panic left it
Died(c, msg) == [cpu |-> c, ok |-> FALSE, ret |-> "", panic |-> msg]

\* `self.program_counter += 2` (u16)
PcPlus2(c, tag) ==
    IF overflow_checks /\ c.program_counter + 2 >= U16
    THEN Died(c, "attempt to add with overflow")
    ELSE Done([c EXCEPT !.program_counter = (c.program_counter + 2) % U16], tag)

\* `self.program_counter -= 2` (u16)
PcMinus2(c, tag) ==
    IF overflow_checks /\ c.program_counter < 2
    THEN Died(c, "attempt to subtract with overflow")
    ELSE Done([c EXCEPT !.program_counter = (c.program_counter + U16 - 2) % U16], tag)

\* `self.program_counter = target - 2` (u16), target < U16 + 2
PcSetMinus2(c, target, tag) ==
    IF overflow_checks /\ target < 2
    THEN Died(c, "attempt to subtract with overflow")
    ELSE Done([c EXCEPT !.program_counter = (target + U16 - 2) % U16], tag)

\* ret_sub taking the oldest stack entry instead of the newest
ret_sub_pops_oldest(c) ==
    IF Len(c.stack) = 0
    THEN Died(c, "00EE: No addresses to pop")
    ELSE Done([c EXCEPT !.stack = SubSeq(c.stack, 2, Len(c.stack)),
                        !.program_counter = c.stack[1]], "00EE")

\* 00EE - ret_sub
ret_sub(c) ==
    IF Len(c.stack) = 0
    THEN Died(c, "00EE: No addresses to pop")
    ELSE Done([c EXCEPT !.stack = SubSeq(c.stack, 1, Len(c.stack) - 1),
                        !.program_counter = c.stack[Len(c.stack)]], "00EE")

\* 1nnn - jump
jump(c, addr) == PcSetMinus2(c, addr, "1nnn")

\* 2nnn - call_sub
call_sub(c, addr) ==
    PcSetMinus2([c EXCEPT !.stack = Append(c.stack, c.program_counter)], addr, "2nnn")

\* 0nnn - ml_sub: the tag of call_sub is dropped and "0nnn" returned
ml_sub(c, addr) ==
    IF addr = 0
    THEN Fail(c, "Failed test run")
    ELSE LET h == call_sub(c, addr)
         IN  IF h.panic # NoPanic THEN h ELSE Done(h.cpu, "0nnn")

\* 3xnn - if_reg_equals_nn
if_reg_equals_nn(c, x, nn) ==
    IF c.v[x] = nn THEN PcPlus2(c, "3xnn") ELSE Done(c, "3xnn")

\* 4xnn - if_not_reg_equals_nn
if_not_reg_equals_nn(c, x, nn) ==
    IF c.v[x] # nn THEN PcPlus2(c, "4xnn") ELSE Done(c, "4xnn")

\* 5xy0 - if_reg_equals_reg
if_reg_equals_reg(c, x, y) ==
    IF c.v[x] = c.v[y] THEN PcPlus2(c, "5xy0") ELSE Done(c, "5xy0")

\* 6xnn - reg_store_nn
reg_store_nn(c, x, nn) == Done([c EXCEPT !.v[x] = nn], "6xnn")

\* reg_add_nn writing the carry of the addition into VF as 8xy4 does
reg_add_nn_sets_flag(c, x, nn) ==
    Done([c EXCEPT !.v[x] = (c.v[x] + nn) % U8,
                   !.v[15] = IF c.v[x] + nn >= U8 THEN 1 ELSE 0], "7xnn")

\* 7xnn - reg_add_nn (wrapping_add)
reg_add_nn(c, x, nn) == Done([c EXCEPT !.v[x] = (c.v[x] + nn) % U8], "7xnn")

\* 8xy0 - assign_reg_to_reg
assign_reg_to_reg(c, x, y) == Done([c EXCEPT !.v[x] = c.v[y]], "8xy0")

\* 8xy1 - reg_or_reg
reg_or_reg(c, x, y) == Done([c EXCEPT !.v[x] = BitOr(c.v[x], c.v[y])], "8xy1")

\* 8xy2 - reg_and_reg
reg_and_reg(c, x, y) == Done([c EXCEPT !.v[x] = BitAnd(c.v[x], c.v[y])], "8xy2")

\* 8xy3 - reg_xor_reg
reg_xor_reg(c, x, y) == Done([c EXCEPT !.v[x] = BitXor(c.v[x], c.v[y])], "8xy3")

\* reg_plus_reg writing the carry into VF before it writes the sum into Vx
reg_plus_reg_flag_first(c, x, y) ==
    LET sum == c.v[x] + c.v[y]
        v1  == [c.v EXCEPT ![15] = IF sum >= U8 THEN 1 ELSE 0]
    IN  Done([c EXCEPT !.v = [v1 EXCEPT ![x] = sum % U8]], "8xy4")

\* 8xy4 - reg_plus_reg (overflowing_add; Vx is written first, VF second)
reg_plus_reg(c, x, y) ==
    LET sum == c.v[x] + c.v[y]
        v1  == [c.v EXCEPT ![x] = sum % U8]
    IN  Done([c EXCEPT !.v = [v1 EXCEPT ![15] = IF sum >= U8 THEN 1 ELSE 0]], "8xy4")

\* reg_minus_reg reporting no borrow only when Vx is strictly greater than Vy
reg_minus_reg_strict(c, x, y) ==
    LET v1 == [c.v EXCEPT ![x] = (c.v[x] + U8 - c.v[y]) % U8]
    IN  Done([c EXCEPT !.v = [v1 EXCEPT ![15] = IF c.v[x] <= c.v[y] THEN 0 ELSE 1]],
             "8xy5")

\* 8xy5 - reg_minus_reg (overflowing_sub; Vx is written first, VF second)
reg_minus_reg(c, x, y) ==
    LET v1 == [c.v EXCEPT ![x] = (c.v[x] + U8 - c.v[y]) % U8]
    IN  Done([c EXCEPT !.v = [v1 EXCEPT ![15] = IF c.v[x] < c.v[y] THEN 0 ELSE 1]],
             "8xy5")

\* 8xy6 - reg_shift_right (VF is written first, Vx second, from the updated file)
reg_shift_right(c, x, y) ==
    LET src == IF c.shift_y THEN y ELSE x
        v1  == [c.v EXCEPT ![15] = c.v[src] % 2]
    IN  Done([c EXCEPT !.v = [v1 EXCEPT ![x] = v1[src] \div 2]], "8xy6")

\* 8xy7 - reverse_reg_minus_reg
reverse_reg_minus_reg(c, x, y) ==
    LET v1 == [c.v EXCEPT ![x] = (c.v[y] + U8 - c.v[x]) % U8]
    IN  Done([c EXCEPT !.v = [v1 EXCEPT ![15] = IF c.v[y] < c.v[x] THEN 0 ELSE 1]],
             "8xy7")

\* 8xyE - reg_shift_left (VF is written first, Vx second, from the updated file)
reg_shift_left(c, x, y) ==
    LET src == IF c.shift_y THEN y ELSE x
        v1  == [c.v EXCEPT ![15] = c.v[src] \div 128]
    IN  Done([c EXCEPT !.v = [v1 EXCEPT ![x] = (v1[src] * 2) % U8]], "8xyE")

\* 9xy0 - if_not_reg_equals_reg
if_not_reg_equals_reg(c, x, y) ==
    IF c.v[x] # c.v[y] THEN PcPlus2(c, "9xy0") ELSE Done(c, "9xy0")

\* Annn - store_addr
store_addr(c, nnn) == Done([c EXCEPT !.i = nnn], "Annn")

\* Bnnn - reg_plus_nnn_jump: `self.v[0] as u16 + nnn - 2`
reg_plus_nnn_jump(c, nnn) == PcSetMinus2(c, c.v[0] + nnn, "Bnnn")

\* random with the byte ORed with nn instead of ANDed
random_or(c, x, nn, rnd) == Done([c EXCEPT !.v[x] = BitOr(rnd, nn)], "Cxnn")

\* Cxnn - random, rnd the byte the generator returned
random(c, x, nn, rnd) == Done([c EXCEPT !.v[x] = BitAnd(rnd, nn)], "Cxnn")

\* Ex9E - if_key_pressed: keys_pressed is indexed by Vx itself
if_key_pressed(c, keys_pressed, x) ==
    IF c.v[x] > 15
    THEN Died(c, "index out of bounds")
    ELSE IF keys_pressed[c.v[x]] THEN PcPlus2(c, "Ex9E") ELSE Done(c, "Ex9E")

\* ExA1 - if_not_key_pressed
if_not_key_pressed(c, keys_pressed, x) ==
    IF c.v[x] > 15
    THEN Died(c, "index out of bounds")
    ELSE IF ~keys_pressed[c.v[x]] THEN PcPlus2(c, "ExA1") ELSE Done(c, "ExA1")

\* Fx07 - store_dt
store_dt(c, x) == Done([c EXCEPT !.v[x] = c.dt], "Fx07")

\* the indices at which the snapshot and the current keys differ
Differing(og, keys_pressed) == {idx \in 0..15 : og[idx] # keys_pressed[idx]}

\* the first element the loop of wait_for_keypress stops at
FirstOf(S) == CHOOSE idx \in S : \A other \in S : idx <= other

\* wait_for_keypress without `self.program_counter -= 2` when no key differs
wait_for_keypress_no_rollback(c, x, keys_pressed) ==
    IF c.is_key_pressed_temp # <<>>
    THEN LET diff == Differing(c.is_key_pressed_temp[1], keys_pressed)
         IN  IF diff # {}
             THEN Done([c EXCEPT !.v[x] = FirstOf(diff),
                                 !.is_key_pressed_temp = <<>>], "Fx0A")
             ELSE Done(c, "Fx0A")
    ELSE PcMinus2([c EXCEPT !.is_key_pressed_temp = <<keys_pressed>>], "Fx0A")

\* wait_for_keypress without `self.is_key_pressed_temp = None` on the differing key
wait_for_keypress_keeps_latch(c, x, keys_pressed) ==
    IF c.is_key_pressed_temp # <<>>
    THEN LET diff == Differing(c.is_key_pressed_temp[1], keys_pressed)
         IN  IF diff # {}
             THEN Done([c EXCEPT !.v[x] = FirstOf(diff)], "Fx0A")
             ELSE PcMinus2(c, "Fx0A")
    ELSE PcMinus2([c EXCEPT !.is_key_pressed_temp = <<keys_pressed>>], "Fx0A")

\* wait_for_keypress reporting a key that is already held when the wait begins
wait_for_keypress_resolves_at_once(c, x, keys_pressed) ==
    IF c.is_key_pressed_temp # <<>>
    THEN LET diff == Differing(c.is_key_pressed_temp[1], keys_pressed)
         IN  IF diff # {}
             THEN Done([c EXCEPT !.v[x] = FirstOf(diff),
                                 !.is_key_pressed_temp = <<>>], "Fx0A")
             ELSE PcMinus2(c, "Fx0A")
    ELSE LET held == {idx \in 0..15 : keys_pressed[idx]}
         IN  IF held # {}
             THEN Done([c EXCEPT !.v[x] = FirstOf(held)], "Fx0A")
             ELSE PcMinus2([c EXCEPT !.is_key_pressed_temp = <<keys_pressed>>], "Fx0A")

\* Fx0A - wait_for_keypress
wait_for_keypress(c, x, keys_pressed) ==
    IF c.is_key_pressed_temp # <<>>
    THEN LET diff == Differing(c.is_key_pressed_temp[1], keys_pressed)
         IN  IF diff # {}
             THEN Done([c EXCEPT !.v[x] = FirstOf(diff),
                                 !.is_key_pressed_temp = <<>>], "Fx0A")
             ELSE PcMinus2(c, "Fx0A")
    ELSE PcMinus2([c EXCEPT !.is_key_pressed_temp = <<keys_pressed>>], "Fx0A")

\* Fx15 - dt_from_reg
dt_from_reg(c, x) == Done([c EXCEPT !.dt = c.v[x]], "Fx15")

\* Fx18 - st_from_reg
st_from_reg(c, x) == Done([c EXCEPT !.st = c.v[x]], "Fx18")

\* Fx1E - add_reg_to_i: `self.i + self.v[x] as u16` (u16)
add_reg_to_i(c, x) ==
    IF overflow_checks /\ c.i + c.v[x] >= U16
    THEN Died(c, "attempt to add with overflow")
    ELSE Done([c EXCEPT !.i = (c.i + c.v[x]) % U16], "Fx1E")

\* Fx29 - get_sprite_address: `(0x20 + (self.v[x] * 5)) as u16`, formed in u8
get_sprite_address(c, x) ==
    IF overflow_checks /\ c.v[x] * 5 >= U8
    THEN Died(c, "attempt to multiply with overflow")
    ELSE IF overflow_checks /\ 32 + c.v[x] * 5 >= U8
    THEN Died(c, "attempt to add with overflow")
    ELSE Done([c EXCEPT !.i = (32 + ((c.v[x] * 5) % U8)) % U8], "Fx29")

\* Cpu::FONT: one row of five sprite bytes per hexadecimal digit
FONT ==
    << <<240, 144, 144, 144, 240>>, <<32, 96, 32, 32, 112>>,
       <<240, 16, 240, 128, 240>>,  <<240, 16, 240, 16, 240>>,
       <<144, 144, 240, 16, 16>>,   <<240, 128, 240, 16, 240>>,
       <<240, 128, 240, 144, 240>>, <<240, 16, 32, 64, 64>>,
       <<240, 144, 240, 144, 240>>, <<240, 144, 240, 16, 240>>,
       <<240, 144, 240, 144, 144>>, <<224, 144, 224, 144, 224>>,
       <<240, 128, 128, 128, 240>>, <<224, 144, 144, 144, 224>>,
       <<240, 128, 240, 128, 240>>, <<240, 128, 240, 128, 128>> >>

\* FONT.iter().flatten(): element idx (from 0) of the 80 sprite bytes
FontFlat(idx) == FONT[(idx \div 5) + 1][(idx % 5) + 1]

\* Cpu::write_fonts_to_mem: mem.space[idx + 0x20] = (sprite >> 8) as u8
write_fonts_to_mem(m) ==
    [m EXCEPT !.space =
        SpaceCopy(m.space, 32, [k \in 1..80 |-> Shr(FontFlat(k - 1), 8) % U8])]

\* cls that returns its tag without `*state = [[false; 32]; 64]`
cls_keeps_pixels(c, fb) == Done(c, "0E00") @@ [state |-> fb]

\* 00E0 - cls; the tag it returns is spelled "0E00"
cls(c, fb) == Done(c, "0E00") @@ [state |-> {}]

RECURSIVE DigitStack(_)
\* the digits get_bcd pushes, least significant first
DigitStack(number) ==
    IF number > 0 THEN <<number % 10>> \o DigitStack(number \div 10) ELSE <<>>

RECURSIVE PadTo3(_)
\* `while stack_of_digits.len() < 3 { push(0) }`
PadTo3(digits) == IF Len(digits) < 3 THEN PadTo3(Append(digits, 0)) ELSE digits

\* Vec::reverse
Reverse(digits) == [k \in 1..Len(digits) |-> digits[Len(digits) + 1 - k]]

RECURSIVE BcdFrom(_, _, _, _)
\* the write loop of get_bcd from idx on: mem.space[self.i as usize + idx] = digit
BcdFrom(c, m, digits, idx) ==
    IF idx >= Len(digits)
    THEN Done(c, "Fx33") @@ [mem |-> m]
    ELSE IF c.i + idx >= BYTE_MAX
    THEN Died(c, "index out of bounds") @@ [mem |-> m]
    ELSE BcdFrom(c, [m EXCEPT !.space = SpaceSet(m.space, c.i + idx, digits[idx + 1])],
                 digits, idx + 1)

\* Fx33 - get_bcd
get_bcd(c, x, m) == BcdFrom(c, m, Reverse(PadTo3(DigitStack(c.v[x]))), 0)

\* `self.i = self.i + x as u16 + 1` unless store_load_quirk
AdvanceI(c, x, tag) ==
    IF c.store_load_quirk
    THEN Done(c, tag)
    ELSE IF overflow_checks /\ c.i + x + 1 >= U16
    THEN Died(c, "attempt to add with overflow")
    ELSE Done([c EXCEPT !.i = (c.i + x + 1) % U16], tag)

RECURSIVE StoreFrom(_, _, _, _)
\* the loop of store_regs from reg on: mem.space[(self.i + reg) as usize] = self.v[reg]
StoreFrom(c, m, x, reg) ==
    IF reg > x
    THEN AdvanceI(c, x, "Fx55") @@ [mem |-> m]
    ELSE IF overflow_checks /\ c.i + reg >= U16
    THEN Died(c, "attempt to add with overflow") @@ [mem |-> m]
    ELSE IF (c.i + reg) % U16 >= BYTE_MAX
    THEN Died(c, "index out of bounds") @@ [mem |-> m]
    ELSE StoreFrom(c, [m EXCEPT !.space = SpaceSet(m.space, (c.i + reg) % U16, c.v[reg])],
                   x, reg + 1)

\* Fx55 - store_regs
store_regs(c, x, m) == StoreFrom(c, m, x, 0)

RECURSIVE LoadRegsFrom(_, _, _, _)
\* the loop of load_regs from reg on: self.v[reg] = mem.space[(self.i + reg) as usize]
LoadRegsFrom(c, m, x, reg) ==
    IF reg > x
    THEN AdvanceI(c, x, "Fx65")
    ELSE IF overflow_checks /\ c.i + reg >= U16
    THEN Died(c, "attempt to add with overflow")
    ELSE IF (c.i + reg) % U16 >= BYTE_MAX
    THEN Died(c, "index out of bounds")
    ELSE LoadRegsFrom([c EXCEPT !.v[reg] = SpaceGet(m.space, (c.i + reg) % U16)],
                      m, x, reg + 1)

\* load_regs with the loop over 0..x instead of 0..=x: Vx is not loaded
load_regs_exclusive(c, x, m) ==
    LET h == LoadRegsFrom(c, m, x, 0)
    IN  IF h.panic # NoPanic THEN h ELSE [h EXCEPT !.cpu.v[x] = c.v[x]]

\* Fx65 - load_regs
load_regs(c, x, m) == LoadRegsFrom(c, m, x, 0)

\* one pixel of draw_sprite: XOR bit into fb at <<col, row>>
PixelXor(fb, col, row, bit) ==
    IF bit = 1
    THEN (IF <<col, row>> \in fb THEN fb \ {<<col, row>>} ELSE fb \cup {<<col, row>>})
    ELSE fb

RECURSIVE DrawCols(_, _, _, _, _, _)
\* the inner loop of draw_sprite from sprite_col on
DrawCols(c, fb, x, row_pos, sprite_value, sprite_col) ==
    IF sprite_col >= 8
    THEN Done(c, "Dxyn") @@ [state |-> fb]
    ELSE IF overflow_checks /\ sprite_col + c.v[x] >= U8
    THEN Died(c, "attempt to add with overflow") @@ [state |-> fb]
    ELSE LET col_pos == (sprite_col + c.v[x]) % U8
             bit     == Shr(sprite_value, 7 - sprite_col) % 2
             hit     == bit = 1 /\ <<col_pos % 64, row_pos % 32>> \in fb
         IN  DrawCols(IF hit THEN [c EXCEPT !.v[15] = 1] ELSE c,
                      PixelXor(fb, col_pos % 64, row_pos % 32, bit),
                      x, row_pos, sprite_value, sprite_col + 1)

RECURSIVE DrawRows(_, _, _, _, _, _, _)
\* the outer loop of draw_sprite from sprite_row on
DrawRows(c, fb, m, x, y, n, sprite_row) ==
    IF sprite_row >= n
    THEN Done(c, "Dxyn") @@ [state |-> fb]
    ELSE IF overflow_checks /\ c.v[y] + sprite_row >= U8
    THEN Died(c, "attempt to add with overflow") @@ [state |-> fb]
    ELSE IF overflow_checks /\ c.i + sprite_row >= U16
    THEN Died(c, "attempt to add with overflow") @@ [state |-> fb]
    ELSE IF (c.i + sprite_row) % U16 >= BYTE_MAX
    THEN Died(c, "index out of bounds") @@ [state |-> fb]
    ELSE LET row == DrawCols(c, fb, x, (c.v[y] + sprite_row) % U8,
                             SpaceGet(m.space, (c.i + sprite_row) % U16), 0)
         IN  IF row.panic # NoPanic
             THEN row
             ELSE DrawRows(row.cpu, row.state, m, x, y, n, sprite_row + 1)

\* Dxyn - draw_sprite: VF is cleared before Vx and Vy are read
draw_sprite(c, x, y, n, fb, m) ==
    DrawRows([c EXCEPT !.v[15] = 0], fb, m, x, y, n, 0)

\* the fields run_cycle decodes from op_code
FirstNibble(op_code) == op_code \div 4096

Nnn(op_code) == op_code % 4096

Nn(op_code) == op_code % 256

X(op_code) == (op_code \div 256) % 16

Y(op_code) == (op_code \div 16) % 16

N(op_code) == op_code % 16

\* the match of run_cycle on first_nibble, n and nn
Dispatch(c, m, fb, keys_pressed, rnd, op_code) ==
    LET first_nibble == FirstNibble(op_code)
        nnn == Nnn(op_code)
        nn  == Nn(op_code)
        x   == X(op_code)
        y   == Y(op_code)
        n   == N(op_code)
    IN  CASE first_nibble = 0 ->
               (IF op_code = 224 THEN cls(c, fb)
                ELSE IF op_code = 238 THEN ret_sub(c)
                ELSE ml_sub(c, nnn))
          [] first_nibble = 1 -> jump(c, nnn)
          [] first_nibble = 2 -> call_sub(c, nnn)
          [] first_nibble = 3 -> if_reg_equals_nn(c, x, nn)
          [] first_nibble = 4 -> if_not_reg_equals_nn(c, x, nn)
          [] first_nibble = 5 ->
               (IF n = 0 THEN if_reg_equals_reg(c, x, y)
                ELSE Fail(c, "5xy0: Tail nibble was not 0x0"))
          [] first_nibble = 6 -> reg_store_nn(c, x, nn)
          [] first_nibble = 7 -> reg_add_nn(c, x, nn)
          [] first_nibble = 8 ->
               (CASE n = 0 -> assign_reg_to_reg(c, x, y)
                  [] n = 1 -> reg_or_reg(c, x, y)
                  [] n = 2 -> reg_and_reg(c, x, y)
                  [] n = 3 -> reg_xor_reg(c, x, y)
                  [] n = 4 -> reg_plus_reg(c, x, y)
                  [] n = 5 -> reg_minus_reg(c, x, y)
                  [] n = 6 -> reg_shift_right(c, x, y)
                  [] n = 7 -> reverse_reg_minus_reg(c, x, y)
                  [] n = 14 -> reg_shift_left(c, x, y)
                  [] OTHER -> Fail(c, "n was not in the expected values for 0x8... ops"))
          [] first_nibble = 9 ->
               (IF n = 0 THEN if_not_reg_equals_reg(c, x, y)
                ELSE Fail(c, "n was not in the expected values for 0x9... ops"))
          [] first_nibble = 10 -> store_addr(c, nnn)
          [] first_nibble = 11 -> reg_plus_nnn_jump(c, nnn)
          [] first_nibble = 12 -> random(c, x, nn, rnd)
          [] first_nibble = 13 -> draw_sprite(c, x, y, n, fb, m)
          [] first_nibble = 14 ->
               (CASE nn = 158 -> if_key_pressed(c, keys_pressed, x)
                  [] nn = 161 -> if_not_key_pressed(c, keys_pressed, x)
                  [] OTHER -> Fail(c, "nn was not in the expected values for 0xE... ops"))
          [] first_nibble = 15 ->
               (CASE nn = 7 -> store_dt(c, x)
                  [] nn = 10 -> wait_for_keypress(c, x, keys_pressed)
                  [] nn = 21 -> dt_from_reg(c, x)
                  [] nn = 24 -> st_from_reg(c, x)
                  [] nn = 30 -> add_reg_to_i(c, x)
                  [] nn = 41 -> get_sprite_address(c, x)
                  [] nn = 51 -> get_bcd(c, x, m)
                  [] nn = 85 -> store_regs(c, x, m)
                  [] nn = 101 -> load_regs(c, x, m)
                  [] OTHER -> Fail(c, "nn was not in the expected values for 0xF... ops"))
          [] OTHER -> Fail(c, "first_nibble bigger than 0xF")

\* the memory and framebuffer a handler outcome h leaves, given those it started from
MemOf(h, m) == IF "mem" \in DOMAIN h THEN h.mem ELSE m

StateOf(h, fb) == IF "state" \in DOMAIN h THEN h.state ELSE fb

\* the universal `self.program_counter += 2` of run_cycle (u16)
Advance(pc) == (pc + 2) % U16

\* Cpu::run_cycle: the Cpu, memory and framebuffer it leaves and what it returns.
\* op_code is the fetched word (-1 when the fetch panicked), handler_pc the
\* program counter the handler left, before the universal advance.
run_cycle(c, m, fb, keys_pressed, rnd) ==
    LET fetch == read(m, c.program_counter)
        dead(msg) == [cpu |-> c, mem |-> m, state |-> fb, ok |-> FALSE, ret |-> "",
                      panic |-> msg, op_code |-> -1,
                      handler_pc |-> c.program_counter]
    IN  IF fetch.panic # NoPanic THEN dead(fetch.panic)
        ELSE IF ~fetch.ok THEN dead("run_cycle: Failed to read op_code")
        ELSE LET h == Dispatch(c, m, fb, keys_pressed, rnd, fetch.val)
                 o == [cpu |-> h.cpu, mem |-> MemOf(h, m), state |-> StateOf(h, fb),
                       ok |-> h.ok, ret |-> h.ret, panic |-> h.panic,
                       op_code |-> fetch.val,
                       handler_pc |-> h.cpu.program_counter]
             IN  IF h.panic # NoPanic THEN o
                 ELSE IF overflow_checks /\ h.cpu.program_counter + 2 >= U16
                 THEN [o EXCEPT !.ok = FALSE, !.ret = "",
                                !.panic = "attempt to add with overflow"]
                 ELSE [o EXCEPT !.cpu.program_counter = Advance(h.cpu.program_counter)]

-----------------------------------------------------------------------------
(* The run loop (main.rs) and the inputs explored *)

\* run_cycle calls explored per run
MaxSteps == 8

\* words per control-flow program
FlowLen == 4

\* draw periods explored per run
MaxTicks == 3

\* direct Memory calls explored per run
MaxCalls == 2

\* the word addresses passed to the Memory methods: both ends of the program
\* window, of the addressable range and of the range whose doubling fits u16
AddrSamples == {0, 511, 512, 1024, 4095, 4096, 32767, 32768, 65535}

\* the words written through the Memory methods: 1234, FFFF
DataSamples == {4660, 65535}

\* the keys whose press and release events are explored
KeySamples == {0, 1}

\* the bytes the random generator is taken to return
RandSamples == {0, 90, 255}

\* control-flow words: 00EE, 0203, 2000, 2201, 2202
FlowWords == {238, 515, 8192, 8705, 8706}

\* the lengths in bytes of the programs handed to load
LoadLens == {0, 1, 2, 5, USABLE_SPACE, USABLE_SPACE + 1}

\* the program of one length: six distinct leading bytes, a marked last byte, and a
\* 1 at every 1024th byte in between
ProgramOf(len) ==
    [k \in 1..len |->
        IF k = len THEN 171
        ELSE IF k <= 6 THEN 17 * k
        ELSE IF k % 1024 = 0 THEN 1
        ELSE 0]

\* the programs handed to load
LoadPrograms == {ProgramOf(len) : len \in LoadLens}

\* first instructions, which set V0 or I: 6000, 6001, 60FF, AFFF
SetupWords == {24576, 24577, 24831, 45055}

\* one or more words of each of the 35 patterns, and words of no pattern
DecodeWords ==
    { 0, 1, 224, 238, 515,                          \* 0000 0001 00E0 00EE 0203
      4096, 4097, 4611, 8192, 8707,                 \* 1000 1001 1203 2000 2203
      12288, 12289, 16384, 16385,                   \* 3000 3001 4000 4001
      20496, 20497, 24593, 28673, 28927,            \* 5010 5011 6011 7001 70FF
      32784, 32785, 32786, 32787, 32788, 32789,     \* 8010 .. 8015
      32790, 32791, 32798, 32792, 32799,            \* 8016 8017 801E 8018 801F
      36880, 36881, 41251, 45055, 45056, 45057,     \* 9010 9011 A123 AFFF B000 B001
      49151, 49167, 53265, 53266, 57502, 57505,     \* BFFF C00F D011 D012 E09E E0A1
      57344, 61781,                                 \* E000 F155
      61447, 61450, 61461, 61464, 61470, 61481,     \* F007 F00A F015 F018 F01E F029
      61491, 61525, 61541, 61440, 61695 }           \* F033 F055 F065 F000 F0FF

\* the register selectors of the arithmetic programs
RegSamples == {0, 1, 15}

\* the register values of the arithmetic programs
ValSamples == {0, 1, 128, 255}

\* the values VF is given last
FlagSamples == {0, 1, 5}

\* the last nibbles of 8xy4, 8xy5, 8xy6, 8xy7, 8xyE
AluOps == {4, 5, 6, 7, 14}

\* the words the advance of 2 fetches, one after the other: every second word of the
\* image, with a 0 in between
Spaced(ws) == [k \in 1..(2 * Len(ws) - 1) |-> IF k % 2 = 1 THEN ws[(k + 1) \div 2] ELSE 0]

\* 6xnn
SetReg(x, nn) == 24576 + x * 256 + nn

\* Vx := a, Vy := b, VF := f, then 8xyN
AluPrograms ==
    {Spaced(<<SetReg(x, a), SetReg(y, b), SetReg(15, f), 32768 + x * 256 + y * 16 + n>>) :
        x \in RegSamples, y \in RegSamples, a \in ValSamples, b \in ValSamples,
        f \in FlagSamples, n \in AluOps}

\* the instructions 6xnn, 7xnn and 8xy0 .. 8xy3 on the registers x and y
LogicWords(x, y) ==
    {24576 + x * 256 + 90, 28672 + x * 256 + 1, 28672 + x * 256 + 255}
        \cup {32768 + x * 256 + y * 16 + n : n \in 0..3}

\* call 0x202 (so that the stack holds an entry), Vx := a, Vy := b, VF := f,
\* I := 0x123, then one instruction of LogicWords
LogicPrograms ==
    UNION {{Spaced(<<8706, SetReg(x, a), SetReg(y, b), SetReg(15, f), 41251, w>>) :
               a \in ValSamples, b \in ValSamples, f \in FlagSamples,
               w \in LogicWords(x, y)} :
           x \in RegSamples, y \in RegSamples}

\* the coordinates the drawing programs put in Vx and Vy
DrawVals == {1, 30, 62, 252}

\* the sprite heights n of the drawing programs
SpriteHeights == {1, 5}

\* Dxyn
DrawWord(x, y, n) == 53248 + x * 256 + y * 16 + n

\* I := 0x400, the byte index of the image's first byte, so that the sprite rows are
\* the image's own bytes; Vx := a, Vy := b; a 3-row draw at (Vy, Vx); then Dxyn
\* three times
DrawPrograms ==
    {Spaced(<<41984, SetReg(x, a), SetReg(y, b), DrawWord(y, x, 3),
              DrawWord(x, y, n), DrawWord(x, y, n), DrawWord(x, y, n)>>) :
        x \in RegSamples, y \in RegSamples, a \in DrawVals, b \in DrawVals,
        n \in SpriteHeights}

\* the values the conversion programs put in Vx
BcdVals == {0, 5, 123, 255}

\* the addresses the conversion programs put in I: 0x300, 0x400, 0x7FF
BcdAddrs == {768, 1024, 2047}

\* Annn; Vx := a; Fx33
BcdPrograms ==
    {Spaced(<<40960 + nnn, SetReg(x, a), 61440 + x * 256 + 51>>) :
        nnn \in BcdAddrs, x \in RegSamples, a \in BcdVals}

\* the addresses the block programs put in I: 0x20, 0x400, 0x410 (whose backing
\* bytes hold the program's instructions after the store), 0x500
BlockAddrs == {32, 1024, 1040, 1280}

\* the values the block programs put in V0 and V1 before the store
BlockVals == {<<7, 200>>, <<0, 9>>}

\* Fx55
StoreWord(x) == 61440 + x * 256 + 85

\* Fx65
LoadWord(x) == 61440 + x * 256 + 101

\* I := nnn; V0 := a; V1 := b; Fx55; V0 := 99; V1 := 98; I := nnn; Fx65
BlockProgram(nnn, x, ab) ==
    Spaced(<<40960 + nnn, SetReg(0, ab[1]), SetReg(1, ab[2]), StoreWord(x),
             SetReg(0, 99), SetReg(1, 98), 40960 + nnn, LoadWord(x)>>)

\* I := 0x400, the byte index of the image's first byte; a 5-row draw at (V0, V0),
\* which lights pixels from the image's own bytes; then one word to decode
ScreenPrograms == {Spaced(<<41984, DrawWord(0, 0, 5), w>>) : w \in DecodeWords}

\* the values a timer program loads into DT and ST
TimerSamples == {0, 1, 2, 255}

\* the timer programs: V0 := k, DT := V0, ST := V0, a screen instruction (00E0 or
\* D005), then V1 := DT twice
TimerPrograms ==
    {Spaced(<<SetReg(0, k), 61461, 61464, d, 61703, 61703>>) :
        k \in TimerSamples, d \in {224, DrawWord(0, 0, 5)}}

\* the multi-cell instructions of the edge programs: F155, F033, F165, D012
EdgeWords == {61781, 61491, 61797, DrawWord(0, 1, 2)}

\* the edge programs: V0 := a, V1 := 200, I := 0xFFE or 0xFFF (the last cells of the
\* window), then two multi-cell instructions
EdgePrograms ==
    {Spaced(<<SetReg(0, a), SetReg(1, 200), 40960 + i, w1, w2>>) :
        a \in {7, 255}, i \in {MAX - 1, MAX}, w1 \in EdgeWords, w2 \in EdgeWords}

\* the immediates nn of the random programs: 0x00, 0x0F, 0xA5, 0xFF
RandMasks == {0, 15, 165, 255}

\* Vx := a; Cxnn
RandPrograms ==
    {Spaced(<<SetReg(x, a), 49152 + x * 256 + nn>>) :
        x \in RegSamples, a \in {0, 255}, nn \in RandMasks}

RECURSIVE WordsToBytes(_)
\* a program image given as 16-bit words, as the bytes of the file (high byte first)
WordsToBytes(ws) ==
    IF ws = <<>> THEN <<>>
    ELSE <<Head(ws) \div 256, Head(ws) % 256>> \o WordsToBytes(Tail(ws))

\* every sequence of FlowLen control-flow words
FlowPrograms == [1..FlowLen -> FlowWords]

\* a setup instruction, the word the advance steps over, and one word to decode
DecodePrograms == {<<s, 0, w>> : s \in SetupWords, w \in DecodeWords}

\* no Fx55 has completed whose memory is still as it left it
NoStore == [x |-> -1, i |-> 0, v |-> CpuDefault.v]

\* every variable at process start, for one Cpu, memory content and build profile
StartWith(c, m, checks) ==
    /\ cpu = c
    /\ mem = m
    /\ state = {}
    /\ is_key_pressed = [k \in 0..15 |-> FALSE]
    /\ keep_trying = TRUE
    /\ overflow_checks = checks
    /\ result = [called |-> FALSE, ok |-> TRUE, ret |-> "", panic |-> NoPanic]
    /\ last = [cpu |-> CpuDefault, mem |-> MemoryDefault, state |-> {},
               keys |-> [k \in 0..15 |-> FALSE], op_code |-> -1, handler_pc |-> 0,
               prev |-> [cpu |-> CpuDefault, mem |-> MemoryDefault, state |-> {},
                         op_code |-> -1, ok |-> FALSE],
               store |-> NoStore]
    /\ trace = <<>>
    /\ steps = 0
    /\ ticks = 0
    /\ api = [fn |-> "", pos |-> 0, data |-> 0, program |-> <<>>, ok |-> TRUE,
              val |-> 0, ret |-> "", panic |-> NoPanic, before |-> MemoryDefault,
              calls |-> 0]

\* process start with the default Cpu
Start(m, checks) == StartWith(CpuDefault, m, checks)

\* main.rs:96-116: the state in which the event loop starts, for one program image:
\* the program is loaded, then the fonts are written
Boot(program, checks) ==
    Start(write_fonts_to_mem(load(MemoryDefault, WordsToBytes(program)).mem), checks)

\* main.rs:96-116 with the command-line flags: cpu.store_load_quirk and cpu.shift_y
\* are set from --store-load-quirks and --shift-y before the program is loaded
BootWith(program, checks, quirk, shift) ==
    StartWith([CpuDefault EXCEPT !.store_load_quirk = quirk, !.shift_y = shift],
              write_fonts_to_mem(load(MemoryDefault, WordsToBytes(program)).mem), checks)

\* the decode programs, under either build profile
Init == \E program \in DecodePrograms, checks \in BOOLEAN : Boot(program, checks)

\* the control-flow programs, under either build profile
InitFlow == \E program \in FlowPrograms, checks \in BOOLEAN : Boot(program, checks)

\* the word the next run_cycle call fetches is Cxnn
FetchesRandom ==
    LET fetch == read(mem, cpu.program_counter)
    IN  fetch.panic = NoPanic /\ fetch.ok /\ FirstNibble(fetch.val) = 12

\* the call or return a successful step made, as a trace event
Event(o, site) ==
    IF o.panic = NoPanic /\ o.ok /\ o.ret \in {"2nnn", "0nnn"}
    THEN <<[kind |-> "call", site |-> site, to |-> o.cpu.program_counter]>>
    ELSE IF o.panic = NoPanic /\ o.ok /\ o.ret = "00EE"
    THEN <<[kind |-> "ret", site |-> site, to |-> o.cpu.program_counter]>>
    ELSE <<>>

\* the match on the result that never clears keep_trying
KeepTryingAfterError(o) == TRUE

\* main.rs:170-176: `Err(_) => keep_trying = false`; a panic never reaches the match
KeepTrying(o) == o.panic # NoPanic \/ o.ok

\* main.rs:168-177: one run_cycle call of the event loop
RunCycle ==
    /\ keep_trying
    /\ result.panic = NoPanic
    /\ steps < MaxSteps
    /\ \E rnd \in (IF FetchesRandom THEN RandSamples ELSE {0}) :
         LET o == run_cycle(cpu, mem, state, is_key_pressed, rnd)
         IN  /\ cpu' = o.cpu
             /\ mem' = o.mem
             /\ state' = o.state
             /\ result' = [called |-> TRUE, ok |-> o.ok, ret |-> o.ret, panic |-> o.panic]
             /\ keep_trying' = KeepTrying(o)
             /\ last' = [cpu |-> cpu, mem |-> mem, state |-> state,
                         keys |-> is_key_pressed,
                         op_code |-> o.op_code, handler_pc |-> o.handler_pc,
                         prev |-> [cpu |-> last.cpu, mem |-> last.mem,
                                   state |-> last.state, op_code |-> last.op_code,
                                   ok |-> result.called /\ result.ok],
                         store |-> IF o.panic = NoPanic /\ o.ok /\ o.ret = "Fx55"
                                   THEN [x |-> X(o.op_code), i |-> cpu.i, v |-> cpu.v]
                                   ELSE IF o.mem # mem THEN NoStore ELSE last.store]
             /\ trace' = trace \o Event(o, cpu.program_counter)
             /\ steps' = steps + 1
    /\ UNCHANGED <<is_key_pressed, overflow_checks, api, ticks>>

\* main.rs:125-141: a key-down event
KeyPressed ==
    /\ result.panic = NoPanic
    /\ \E key \in KeySamples : is_key_pressed' = [is_key_pressed EXCEPT ![key] = TRUE]
    /\ UNCHANGED <<cpu, mem, state, keep_trying, overflow_checks, result, last, trace,
                   steps, api, ticks>>

\* main.rs:142-158: a key-up event
KeyReleased ==
    /\ result.panic = NoPanic
    /\ \E key \in KeySamples : is_key_pressed' = [is_key_pressed EXCEPT ![key] = FALSE]
    /\ UNCHANGED <<cpu, mem, state, keep_trying, overflow_checks, result, last, trace,
                   steps, api, ticks>>

\* main.rs:182-194: more than 16 ms have passed since last_draw; the redraw request
\* and the two timer decrements are all under `&& cpu.drawn`
TimerTick ==
    /\ result.panic = NoPanic
    /\ ticks < MaxTicks
    /\ ticks' = ticks + 1
    /\ cpu' = IF cpu.drawn
              THEN [cpu EXCEPT !.dt = IF cpu.dt > 0 THEN cpu.dt - 1 ELSE cpu.dt,
                               !.st = IF cpu.st > 0 THEN cpu.st - 1 ELSE cpu.st]
              ELSE cpu
    /\ UNCHANGED <<mem, state, is_key_pressed, keep_trying, overflow_checks, result,
                   last, trace, steps, api>>

Next == RunCycle \/ KeyPressed \/ KeyReleased

Spec == Init /\ [][Next]_vars

\* the control-flow programs read no key, so their runs are explored without key events
SpecFlow == InitFlow /\ [][RunCycle]_vars

\* the arithmetic programs, under either build profile and either --shift-y setting
InitAlu ==
    \E program \in AluPrograms, checks \in BOOLEAN, shift \in BOOLEAN :
        BootWith(program, checks, FALSE, shift)

SpecAlu == InitAlu /\ [][RunCycle]_vars

\* the register programs, under either build profile
InitLogic == \E program \in LogicPrograms, checks \in BOOLEAN : Boot(program, checks)

SpecLogic == InitLogic /\ [][RunCycle]_vars

\* the drawing programs, under either build profile
InitDraw == \E program \in DrawPrograms, checks \in BOOLEAN : Boot(program, checks)

SpecDraw == InitDraw /\ [][RunCycle]_vars

\* tests::ops::load_regs: the cells addressed nnn and nnn + 1 written with
\* Memory::write before the Cpu runs; a refused write leaves the memory as it was
CellsWritten(m, nnn) == write(write(m, nnn, 55).mem, nnn + 1, 56).mem

\* the block programs, under either build profile and either --store-load-quirks
\* setting, with the cells at I written through Memory::write
InitBlock ==
    \E nnn \in BlockAddrs, x \in RegSamples, ab \in BlockVals,
       checks \in BOOLEAN, quirk \in BOOLEAN :
        /\ overflow_checks = checks
        /\ StartWith([CpuDefault EXCEPT !.store_load_quirk = quirk],
                     CellsWritten(write_fonts_to_mem(
                         load(MemoryDefault, WordsToBytes(BlockProgram(nnn, x, ab))).mem), nnn),
                     checks)

SpecBlock == InitBlock /\ [][RunCycle]_vars

\* the programs that decode a word over a lit framebuffer, under either build profile
InitScreen == \E program \in ScreenPrograms, checks \in BOOLEAN : Boot(program, checks)

SpecScreen == InitScreen /\ [][RunCycle]_vars

\* the timer programs, under either build profile
InitTimer == \E program \in TimerPrograms, checks \in BOOLEAN : Boot(program, checks)

\* the run loop: an instruction step, or the 16 ms branch of the same iteration
NextTimer == RunCycle \/ TimerTick

SpecTimer == InitTimer /\ [][NextTimer]_vars

\* the edge programs, under either build profile
InitEdge == \E program \in EdgePrograms, checks \in BOOLEAN : Boot(program, checks)

SpecEdge == InitEdge /\ [][RunCycle]_vars

\* the random programs, under either build profile
InitRand == \E program \in RandPrograms, checks \in BOOLEAN : Boot(program, checks)

SpecRand == InitRand /\ [][RunCycle]_vars

\* the conversion programs, under either build profile
InitBcd == \E program \in BcdPrograms, checks \in BOOLEAN : Boot(program, checks)

SpecBcd == InitBcd /\ [][RunCycle]_vars

-----------------------------------------------------------------------------
(* Direct calls of the Memory methods, as memory.rs's tests make them *)

InitMem == \E checks \in BOOLEAN : Start(MemoryDefault, checks)

\* the record of one Memory call: its arguments, what it returned, the memory before
Called(fn, pos, data, r) ==
    [fn |-> fn, pos |-> pos, data |-> data, program |-> <<>>, ok |-> r.ok,
     val |-> IF "val" \in DOMAIN r THEN r.val ELSE 0,
     ret |-> r.ret, panic |-> r.panic, before |-> mem, calls |-> api.calls + 1]

\* mem.read(pos)
MemRead ==
    /\ api.panic = NoPanic
    /\ api.calls < MaxCalls
    /\ \E pos \in AddrSamples : api' = Called("read", pos, 0, read(mem, pos))
    /\ UNCHANGED <<cpu, mem, state, is_key_pressed, keep_trying, overflow_checks,
                   result, last, trace, steps, ticks>>

\* mem.write(pos, data)
MemWrite ==
    /\ api.panic = NoPanic
    /\ api.calls < MaxCalls
    /\ \E pos \in AddrSamples, data \in DataSamples :
         LET r == write(mem, pos, data)
         IN  mem' = r.mem /\ api' = Called("write", pos, data, r)
    /\ UNCHANGED <<cpu, state, is_key_pressed, keep_trying, overflow_checks,
                   result, last, trace, steps, ticks>>

\* mem.unbound_write(pos, data)
MemUnboundWrite ==
    /\ api.panic = NoPanic
    /\ api.calls < MaxCalls
    /\ \E pos \in AddrSamples, data \in DataSamples :
         LET r == unbound_write(mem, pos, data)
         IN  mem' = r.mem /\ api' = Called("unbound_write", pos, data, r)
    /\ UNCHANGED <<cpu, state, is_key_pressed, keep_trying, overflow_checks,
                   result, last, trace, steps, ticks>>

\* mem.load(program)
MemLoad ==
    /\ api.panic = NoPanic
    /\ api.calls < MaxCalls
    /\ \E program \in LoadPrograms :
         LET r == load(mem, program)
         IN  /\ mem' = r.mem
             /\ api' = [Called("load", 0, 0, r) EXCEPT !.program = program]
    /\ UNCHANGED <<cpu, state, is_key_pressed, keep_trying, overflow_checks,
                   result, last, trace, steps, ticks>>

NextMem == MemRead \/ MemWrite \/ MemUnboundWrite

SpecMem == InitMem /\ [][NextMem]_vars

\* loads of program images, over memories that unbound_write has written to
NextLoad == MemLoad \/ MemUnboundWrite

SpecLoad == InitMem /\ [][NextLoad]_vars

-----------------------------------------------------------------------------
(* Properties.  `last` holds the Cpu, memory, framebuffer and keys the last *)
(* run_cycle call started from, `result` what it produced.                  *)

\* the last run_cycle call returned (it did not panic)
Returned == result.called /\ result.panic = NoPanic

ReturnedOk == Returned /\ result.ok

ReturnedErr == Returned /\ ~result.ok

Panicked == result.called /\ result.panic # NoPanic

\* the word the last run_cycle call fetched
LastOp == last.op_code

\* the word is one of the six conditional skips
IsSkip(op) ==
    \/ FirstNibble(op) \in {3, 4}
    \/ FirstNibble(op) \in {5, 9} /\ N(op) = 0
    \/ FirstNibble(op) = 14 /\ Nn(op) \in {158, 161}

\* the condition of the skip op holds for registers v and key snapshot keys
SkipCondition(op, v, keys) ==
    CASE FirstNibble(op) = 3 -> v[X(op)] = Nn(op)
      [] FirstNibble(op) = 4 -> v[X(op)] # Nn(op)
      [] FirstNibble(op) = 5 -> v[X(op)] = v[Y(op)]
      [] FirstNibble(op) = 9 -> v[X(op)] # v[Y(op)]
      [] FirstNibble(op) = 14 /\ Nn(op) = 158 -> v[X(op)] <= 15 /\ keys[v[X(op)]]
      [] FirstNibble(op) = 14 /\ Nn(op) = 161 -> v[X(op)] <= 15 /\ ~keys[v[X(op)]]
      [] OTHER -> FALSE

\* 00EE, 0nnn, 1nnn, 2nnn or Bnnn
Redirects(op) == (FirstNibble(op) \in {0, 1, 2, 11}) /\ op # 224

\* the last step ran Fx0A and left the key wait pending
StillBlocked ==
    FirstNibble(LastOp) = 15 /\ Nn(LastOp) = 10 /\ cpu.is_key_pressed_temp # <<>>

C2_SkipAddsOneWord ==
    (ReturnedOk /\ IsSkip(LastOp))
    => last.handler_pc = last.cpu.program_counter
                           + (IF SkipCondition(LastOp, last.cpu.v, last.keys) THEN 1 ELSE 0)

\* C3: a step that executes 1nnn ends with the program counter at nnn, and one that
\* executes Bnnn with it at nnn + V0, for every nnn in 0..0xFFF and every V0.
C3_JumpLandsOnTarget ==
    /\ (result.called /\ FirstNibble(LastOp) = 1)
       => (ReturnedOk /\ cpu.program_counter = Nnn(LastOp))
    /\ (result.called /\ FirstNibble(LastOp) = 11)
       => (ReturnedOk /\ cpu.program_counter = Nnn(LastOp) + last.cpu.v[0])

\* C4: a step that executes 2nnn grows the stack by exactly one entry, the address
\* the call instruction was fetched from, and ends with the program counter at nnn.
C4_CallPushesItsOwnAddress ==
    (result.called /\ FirstNibble(LastOp) = 2)
    => /\ ReturnedOk
       /\ cpu.stack = Append(last.cpu.stack, last.cpu.program_counter)
       /\ cpu.program_counter = Nnn(LastOp)

RECURSIVE Pending(_)
\* the call sites of a trace that no return has matched yet, oldest first, each
\* return being matched with the latest unmatched call before it
Pending(tr) ==
    IF tr = <<>> THEN <<>>
    ELSE LET before == Pending(SubSeq(tr, 1, Len(tr) - 1))
             e      == tr[Len(tr)]
         IN  IF e.kind = "call" THEN Append(before, e.site)
             ELSE IF before = <<>> THEN <<>>
             ELSE SubSeq(before, 1, Len(before) - 1)

\* the number of events of one kind in a trace
CountOf(tr, kind) == Cardinality({k \in 1..Len(tr) : tr[k].kind = kind})

\* C5: a 00EE with a non-empty stack resumes where sequential execution would have
\* gone directly after the matching call, the returns match the calls in reverse
\* (LIFO) order, and the stack depth is the number of calls minus the number of
\* returns.
C5_ReturnsAreLifo ==
    /\ \A k \in 1..Len(trace) :
         trace[k].kind = "ret"
         => LET open == Pending(SubSeq(trace, 1, k - 1))
            IN  open # <<>> /\ trace[k].to = Advance(open[Len(open)])
    /\ Returned => cpu.stack = Pending(trace)
    /\ Returned => Len(cpu.stack) = CountOf(trace, "call") - CountOf(trace, "ret")

\* two nested calls from different sites have both returned, innermost first
C5_Witness ==
    /\ Len(trace) >= 4
    /\ trace[1].kind = "call" /\ trace[2].kind = "call"
    /\ trace[3].kind = "ret" /\ trace[4].kind = "ret"
    /\ trace[1].site # trace[2].site
    /\ Returned

\* C6: a step that executes 00EE while the stack is empty returns an error from
\* run_cycle instead of aborting, and leaves the program counter and the stack as
\* they were.
C6_UnderflowIsReturned ==
    (result.called /\ LastOp = 238 /\ last.cpu.stack = <<>>)
    => /\ ReturnedErr
       /\ cpu.program_counter = last.cpu.program_counter
       /\ cpu.stack = last.cpu.stack

\* the tag run_cycle gives each of the 35 patterns, "" for a word of no pattern
TagOf(op) ==
    LET tags8 == [n \in {0, 1, 2, 3, 4, 5, 6, 7, 14} |->
                    CASE n = 0 -> "8xy0" [] n = 1 -> "8xy1" [] n = 2 -> "8xy2"
                      [] n = 3 -> "8xy3" [] n = 4 -> "8xy4" [] n = 5 -> "8xy5"
                      [] n = 6 -> "8xy6" [] n = 7 -> "8xy7" [] OTHER -> "8xyE"]
        tagsF == [nn \in {7, 10, 21, 24, 30, 41, 51, 85, 101} |->
                    CASE nn = 7 -> "Fx07" [] nn = 10 -> "Fx0A" [] nn = 21 -> "Fx15"
                      [] nn = 24 -> "Fx18" [] nn = 30 -> "Fx1E" [] nn = 41 -> "Fx29"
                      [] nn = 51 -> "Fx33" [] nn = 85 -> "Fx55" [] OTHER -> "Fx65"]
    IN  CASE op = 224 -> "0E00"
          [] op = 238 -> "00EE"
          [] FirstNibble(op) = 0 /\ op \notin {224, 238} -> "0nnn"
          [] FirstNibble(op) = 1 -> "1nnn"
          [] FirstNibble(op) = 2 -> "2nnn"
          [] FirstNibble(op) = 3 -> "3xnn"
          [] FirstNibble(op) = 4 -> "4xnn"
          [] FirstNibble(op) = 5 /\ N(op) = 0 -> "5xy0"
          [] FirstNibble(op) = 6 -> "6xnn"
          [] FirstNibble(op) = 7 -> "7xnn"
          [] FirstNibble(op) = 8 /\ N(op) \in DOMAIN tags8 -> tags8[N(op)]
          [] FirstNibble(op) = 9 /\ N(op) = 0 -> "9xy0"
          [] FirstNibble(op) = 10 -> "Annn"
          [] FirstNibble(op) = 11 -> "Bnnn"
          [] FirstNibble(op) = 12 -> "Cxnn"
          [] FirstNibble(op) = 13 -> "Dxyn"
          [] FirstNibble(op) = 14 /\ Nn(op) = 158 -> "Ex9E"
          [] FirstNibble(op) = 14 /\ Nn(op) = 161 -> "ExA1"
          [] FirstNibble(op) = 15 /\ Nn(op) \in DOMAIN tagsF -> tagsF[Nn(op)]
          [] OTHER -> ""

\* C7: run_cycle returns Ok with the tag of the matching pattern for every fetched
\* word of one of the 35 patterns and an error for every other word.
C7_EveryPatternSucceeds ==
    (result.called /\ LastOp # -1)
    => IF TagOf(LastOp) # ""
       THEN ReturnedOk /\ result.ret = TagOf(LastOp)
       ELSE ReturnedErr

\* C8: whenever run_cycle returns an error, registers, stack, program counter, I,
\* timers, key-wait latch, memory and framebuffer are what they were before the step.
C8_ErrorChangesNothing ==
    ReturnedErr => (cpu = last.cpu /\ mem = last.mem /\ state = last.state)

\* the last step needed a cell outside the window: its fetch, or a cell I + k of
\* Dxyn (k < n), Fx33 (k < 3), Fx55 or Fx65 (k <= x)
NeedsCellOutside ==
    \/ last.cpu.program_counter > MAX
    \/ /\ LastOp # -1
       /\ \/ FirstNibble(LastOp) = 13 /\ N(LastOp) > 0
                /\ last.cpu.i + N(LastOp) - 1 > MAX
          \/ FirstNibble(LastOp) = 15 /\ Nn(LastOp) = 51 /\ last.cpu.i + 2 > MAX
          \/ FirstNibble(LastOp) = 15 /\ Nn(LastOp) \in {85, 101}
                /\ last.cpu.i + X(LastOp) > MAX

\* C9: a step that needs a memory cell outside the permitted window ends with
\* run_cycle returning the out-of-bounds error; it never aborts the interpreter.
C9_OutOfBoundsIsReturned ==
    (result.called /\ NeedsCellOutside)
    => (ReturnedErr /\ result.ret = "Out of bounds exception")

\* C10: read succeeds exactly for pos <= 0xFFF, write exactly for
\* 0x200 <= pos <= 0xFFF, unbound_write exactly for pos <= 0xFFF, and every other
\* call returns the out-of-bounds error.
C10_AddressWindows ==
    (api.fn \in {"read", "write", "unbound_write"})
    => /\ api.panic = NoPanic
       /\ api.ok <=> (IF api.fn = "write" THEN 512 <= api.pos /\ api.pos <= 4095
                      ELSE api.pos <= 4095)
       /\ ~api.ok => api.ret = "Out of bounds exception"

\* the last direct Memory call was a write or an unbound_write
WasWrite == api.fn \in {"write", "unbound_write"}

\* the addresses whose read can differ between two memories (a word with a non-zero
\* byte in either), the neighbours of the written address, and the sampled addresses
ReadAddrs ==
    ({b \div 2 : b \in (DOMAIN mem.space) \cup (DOMAIN api.before.space)}
        \cup AddrSamples \cup {api.pos + 1} \cup {a \in {api.pos - 1} : a >= 0})

\* C11: after a successful write or unbound_write of v at addr, read(addr) returns v
\* (high byte first) and read of every other address returns what it did before;
\* a write that fails leaves every memory cell unchanged.
C11_WriteThenRead ==
    WasWrite
    => /\ api.ok
          => /\ read(mem, api.pos) = [ok |-> TRUE, val |-> api.data, ret |-> "Ok",
                                      panic |-> NoPanic]
             /\ SpaceGet(mem.space, PosU(api.pos)) = api.data \div 256
             /\ SpaceGet(mem.space, PosU(api.pos) + 1) = api.data % 256
             /\ \A a \in ReadAddrs \ {api.pos} : read(mem, a) = read(api.before, a)
       /\ ~api.ok => mem = api.before

\* a second successful write, of a word with two different bytes, to an address other
\* than the one written first
C11_Witness ==
    /\ WasWrite /\ api.ok /\ api.calls = 2
    /\ api.data = 4660
    /\ api.before.space # <<>>
    /\ PosU(api.pos) \notin DOMAIN api.before.space

\* C12: load succeeds for every program of at most USABLE_SPACE = 7168 bytes, one of
\* exactly that length ending on the last byte of the backing store and not past it,
\* and fails with the too-large error for every longer program, leaving memory as
\* it was.
C12_LoadBoundary ==
    (api.fn = "load")
    => /\ api.panic = NoPanic
       /\ api.ok <=> (Len(api.program) <= 7168)
       /\ (api.ok /\ Len(api.program) = 7168)
          => /\ SpaceGet(mem.space, BYTE_MAX - 1) = api.program[7168]
             /\ DOMAIN mem.space \subseteq 0..(BYTE_MAX - 1)
       /\ ~api.ok => (api.ret = "Program bigger than memory space" /\ mem = api.before)

\* a program of exactly the usable space was loaded over a memory already written to
C12_Witness ==
    /\ api.fn = "load" /\ api.ok
    /\ Len(api.program) = USABLE_SPACE
    /\ api.before.space # <<>>

\* C13: after a successful load, read(0x200 + j) returns bytes[2j] * 256 + bytes[2j+1]
\* (bytes counted from 0) for every j with 2j + 1 < len(bytes), and every backing
\* byte outside the loaded range, the reserved region included, is unchanged.
C13_LoadLaysOutVerbatim ==
    (api.fn = "load" /\ api.ok)
    => LET len == Len(api.program)
       IN  /\ \A j \in 0..((len \div 2) - 1) :
                read(mem, 512 + j) =
                    [ok |-> TRUE, val |-> api.program[2 * j + 1] * 256 + api.program[2 * j + 2],
                     ret |-> "Ok", panic |-> NoPanic]
           /\ \A b \in (DOMAIN mem.space) \cup (DOMAIN api.before.space) :
                (b < 1024 \/ b >= 1024 + len)
                => SpaceGet(mem.space, b) = SpaceGet(api.before.space, b)

\* a 5-byte program was loaded over a memory holding a word in the reserved region
C13_Witness ==
    /\ api.fn = "load" /\ api.ok
    /\ Len(api.program) = 5
    /\ \E b \in DOMAIN api.before.space : b < 1024 /\ b \in DOMAIN mem.space

\* the last step ran the word 8xyN with last nibble n and returned
RanAlu(n) == Returned /\ FirstNibble(LastOp) = 8 /\ N(LastOp) = n

\* the registers before the last step
Before == last.cpu.v

\* C14: for every x and y (x = F and y = F included) 8xy4 leaves VF = 1 if
\* Vx + Vy > 255 and VF = 0 otherwise, and for x # F leaves Vx = (Vx + Vy) mod 256,
\* both from the values before the instruction.
C14_AddCarry ==
    RanAlu(4)
    => LET x == X(LastOp)
           y == Y(LastOp)
       IN  /\ ReturnedOk
           /\ cpu.v[15] = (IF Before[x] + Before[y] > 255 THEN 1 ELSE 0)
           /\ x # 15 => cpu.v[x] = (Before[x] + Before[y]) % 256

\* 8F14 ran with VF + V1 above 255, and 8014 with V0 = 255 and V1 = 1
C14_Witness ==
    /\ RanAlu(4)
    /\ \/ X(LastOp) = 15 /\ Y(LastOp) = 1 /\ Before[15] + Before[1] > 255
       \/ X(LastOp) = 0 /\ Y(LastOp) = 15 /\ Before[0] = 255 /\ Before[15] = 1

\* the minuend and the subtrahend of the last step, an 8xy5 (Vx - Vy) or an
\* 8xy7 (Vy - Vx), as the registers held them before the step
Minuend == IF N(LastOp) = 5 THEN Before[X(LastOp)] ELSE Before[Y(LastOp)]

Subtrahend == IF N(LastOp) = 5 THEN Before[Y(LastOp)] ELSE Before[X(LastOp)]

\* C15 as stated: for every x and y, 8xy5 leaves Vx = (Vx - Vy) mod 256 and 8xy7
\* leaves Vx = (Vy - Vx) mod 256, and each leaves VF = 1 exactly when the minuend is
\* greater than or equal to the subtrahend.
C15_AsStated ==
    (RanAlu(5) \/ RanAlu(7))
    => /\ ReturnedOk
       /\ cpu.v[X(LastOp)] = (Minuend - Subtrahend) % 256
       /\ cpu.v[15] = (IF Minuend >= Subtrahend THEN 1 ELSE 0)

\* C15 amended: 8xy5 and 8xy7 leave VF = 1 exactly when the minuend is greater than
\* or equal to the subtrahend, for every x and y, and leave the difference mod 256
\* in Vx for every x other than F (for x = F the flag replaces the difference).
C15_SubtractNoBorrow ==
    (RanAlu(5) \/ RanAlu(7))
    => /\ ReturnedOk
       /\ X(LastOp) # 15 => cpu.v[X(LastOp)] = (Minuend - Subtrahend) % 256
       /\ cpu.v[15] = (IF Minuend >= Subtrahend THEN 1 ELSE 0)

\* a subtraction of two equal non-zero values ran, with x other than y
C15_Witness ==
    /\ (RanAlu(5) \/ RanAlu(7))
    /\ X(LastOp) # Y(LastOp)
    /\ Minuend = Subtrahend /\ Minuend > 0

\* the value the last step, an 8xy6 or 8xyE, shifts: Vx before the step, or Vy
\* before the step under --shift-y
ShiftSource == IF last.cpu.shift_y THEN Before[Y(LastOp)] ELSE Before[X(LastOp)]

\* C16: for every x and y (F included) and both settings of the shift quirk, 8xy6
\* and 8xyE leave VF equal to the bit shifted out of the source as it was before the
\* instruction (bit 0 for the right shift, bit 7 for the left shift) and leave that
\* source shifted by one position (mod 256) in Vx.
C16_ShiftFromOldSource ==
    /\ RanAlu(6)
       => /\ cpu.v[15] = ShiftSource % 2
          /\ cpu.v[X(LastOp)] = ShiftSource \div 2
    /\ RanAlu(14)
       => /\ cpu.v[15] = ShiftSource \div 128
          /\ cpu.v[X(LastOp)] = (ShiftSource * 2) % 256

\* the last run_cycle call fetched a Dxyn
RanDraw == result.called /\ LastOp # -1 /\ FirstNibble(LastOp) = 13

\* bit (7 - c) of the r-th sprite byte, the byte at index i + r of memory m
SpriteBit(m, i, r, c) == Shr(SpaceGet(m.space, i + r), 7 - c) % 2

\* the pixels an n-row sprite at I = i has a 1 bit for when it is placed at column
\* vx, row vy, wrapping at 64 columns and 32 rows
Lit(m, i, vx, vy, n) ==
    {<<(vx + rc[2]) % 64, (vy + rc[1]) % 32>> :
        rc \in {p \in (0..(n - 1)) \X (0..7) : SpriteBit(m, i, p[1], p[2]) = 1}}

\* the pixels of the last Dxyn, placed by the values Vx and Vy held when it started
LastLit ==
    Lit(last.mem, last.cpu.i, Before[X(LastOp)], Before[Y(LastOp)], N(LastOp))

\* C17: Dxyn XORs bit (7 - c) of the r-th sprite byte into the pixel at column
\* (Vx + c) mod 64, row (Vy + r) mod 32, for r < n and c < 8, Vx and Vy being the
\* values held when the instruction starts, for every x, y, n and register value,
\* and leaves every other pixel unchanged.
C17_DrawXorsSprite ==
    RanDraw
    => /\ ReturnedOk
       /\ state = (last.state \ LastLit) \cup (LastLit \ last.state)

\* C18: after Dxyn, VF is 1 if a sprite bit equal to 1 was drawn onto a pixel that
\* was already set and 0 otherwise, whatever VF held before; a repeated draw of a
\* sprite with a set bit at the same place reports 1.
C18_CollisionFlag ==
    RanDraw
    => /\ ReturnedOk
       /\ cpu.v[15] = (IF LastLit \cap last.state # {} THEN 1 ELSE 0)

\* the last two run_cycle calls fetched the same Dxyn with the same Vx, Vy, I and
\* memory, and the first of them returned
RepeatedDraw ==
    /\ RanDraw
    /\ last.prev.ok
    /\ last.prev.op_code = LastOp
    /\ last.prev.cpu.v[X(LastOp)] = Before[X(LastOp)]
    /\ last.prev.cpu.v[Y(LastOp)] = Before[Y(LastOp)]
    /\ last.prev.cpu.i = last.cpu.i
    /\ last.prev.mem = last.mem

\* C19: Dxyn executed twice in a row with the same x, y, n, I, sprite bytes, Vx and
\* Vy restores the framebuffer to its state before the first draw, for every
\* starting framebuffer and every x and y.
C19_DrawTwiceRestores ==
    RepeatedDraw
    => /\ ReturnedOk
       /\ state = last.prev.state

\* the last run_cycle call fetched an Fx33
RanBcd == result.called /\ LastOp # -1 /\ FirstNibble(LastOp) = 15 /\ Nn(LastOp) = 51

\* the three decimal digits of a value 0..255, hundreds first
Digits(value) == <<value \div 100, (value \div 10) % 10, value % 10>>

\* the byte indices that back the cells addressed pos, pos + 1 and pos + 2
CellBytes(pos) == (2 * pos)..(2 * pos + 5)

\* C20: Fx33 writes Vx div 100, (Vx div 10) mod 10 and Vx mod 10, in that order,
\* into the cells addressed I, I + 1 and I + 2, the cells Memory's read returns for
\* those addresses, and changes no other memory cell, no register and not I.
C20_BcdThreeCells ==
    RanBcd
    => /\ ReturnedOk
       /\ \A k \in 0..2 :
              /\ read(mem, last.cpu.i + k).ok
              /\ read(mem, last.cpu.i + k).val = Digits(Before[X(LastOp)])[k + 1]
       /\ \A idx \in (DOMAIN mem.space \cup DOMAIN last.mem.space) \ CellBytes(last.cpu.i) :
              SpaceGet(mem.space, idx) = SpaceGet(last.mem.space, idx)
       /\ cpu.v = last.cpu.v
       /\ cpu.i = last.cpu.i

\* the last run_cycle call fetched an Fx55
RanStore == result.called /\ LastOp # -1 /\ FirstNibble(LastOp) = 15 /\ Nn(LastOp) = 85

\* the last run_cycle call fetched an Fx65
RanLoad == result.called /\ LastOp # -1 /\ FirstNibble(LastOp) = 15 /\ Nn(LastOp) = 101

\* C21: the cell an I-based instruction addresses as I + k is the cell that
\* Memory.read(I + k) and Memory.write(I + k, .) address: after Fx33 and after Fx55
\* Memory.read(I + k) returns the digit or the register value stored for offset k,
\* and Fx65 loads into Vk the value v <= 255 that Memory.read(I + k) returns.
C21_SameCellAsMemory ==
    /\ RanBcd => /\ ReturnedOk
                 /\ \A k \in 0..2 :
                        read(mem, last.cpu.i + k).val = Digits(Before[X(LastOp)])[k + 1]
    /\ RanStore => /\ ReturnedOk
                   /\ \A k \in 0..X(LastOp) : read(mem, last.cpu.i + k).val = Before[k]
    /\ RanLoad => /\ ReturnedOk
                  /\ \A k \in 0..X(LastOp) :
                         read(last.mem, last.cpu.i + k).val < U8
                         => cpu.v[k] = read(last.mem, last.cpu.i + k).val

\* the byte indices that back the cells addressed pos .. pos + x
BlockBytes(pos, x) == (2 * pos)..(2 * (pos + x) + 1)

\* I after Fx55 or Fx65 that started with I = i: i + x + 1, or i under the quirk
IAfterBlock(i, x) == IF last.cpu.store_load_quirk THEN i ELSE i + x + 1

\* C22: Fx55 copies V0..Vx in order into the cells I..I+x and Fx65 copies the cells
\* I..I+x into V0..Vx, touching no register above Vx and no cell outside I..I+x;
\* afterwards I is its old value plus x + 1 when store_load_quirk is off and
\* unchanged when it is on.
C22_BlockCopy ==
    /\ RanStore
       => /\ ReturnedOk
          /\ \A k \in 0..X(LastOp) : read(mem, last.cpu.i + k).val = Before[k]
          /\ \A idx \in (DOMAIN mem.space \cup DOMAIN last.mem.space)
                           \ BlockBytes(last.cpu.i, X(LastOp)) :
                 SpaceGet(mem.space, idx) = SpaceGet(last.mem.space, idx)
          /\ cpu.v = last.cpu.v
          /\ cpu.i = IAfterBlock(last.cpu.i, X(LastOp))
    /\ RanLoad
       => /\ ReturnedOk
          /\ \A k \in 0..X(LastOp) : cpu.v[k] = read(last.mem, last.cpu.i + k).val % U8
          /\ \A k \in Regs : k > X(LastOp) => cpu.v[k] = Before[k]
          /\ mem = last.mem
          /\ cpu.i = IAfterBlock(last.cpu.i, X(LastOp))

\* the last run_cycle call fetched an Fx65 with the x and the I of the last completed
\* Fx55, and memory is as that Fx55 left it
LoadsWhatWasStored ==
    RanLoad /\ last.store.x = X(LastOp) /\ last.store.i = last.cpu.i

\* C23: Fx55, then V0..Vx overwritten, then Fx65 with the same x and the same I as
\* the store used leaves V0..Vx equal to their values before the store, under both
\* settings of store_load_quirk.
C23_StoreThenLoadRestores ==
    LoadsWhatWasStored
    => /\ ReturnedOk
       /\ \A k \in 0..X(LastOp) : cpu.v[k] = last.store.v[k]

\* V0 and V1 were overwritten after the store and the load brought both back
C23_Witness ==
    /\ LoadsWhatWasStored
    /\ ReturnedOk
    /\ X(LastOp) >= 1
    /\ Before[0] # last.store.v[0]
    /\ Before[1] # last.store.v[1]
    /\ cpu.v[0] = last.store.v[0]
    /\ cpu.v[1] = last.store.v[1]

\* the last run_cycle call fetched an Fx0A
RanWait == result.called /\ LastOp # -1 /\ FirstNibble(LastOp) = 15 /\ Nn(LastOp) = 10

\* the key-wait latch before the last step
LatchBefore == last.cpu.is_key_pressed_temp

\* the last step was handed a key state that differs from the captured snapshot
KeysDiffer == LatchBefore # <<>> /\ Differing(LatchBefore[1], last.keys) # {}

\* C24: while an Fx0A is blocked, a step whose key state equals the snapshot index
\* by index leaves pc at the address of the Fx0A and writes no register; the
\* snapshot is captured by the first blocking step and not refreshed afterwards.
C24_BlockedStaysPut ==
    (RanWait /\ ~KeysDiffer)
    => /\ ReturnedOk
       /\ cpu.program_counter = last.cpu.program_counter
       /\ cpu.v = last.cpu.v
       /\ cpu.is_key_pressed_temp =
              (IF LatchBefore = <<>> THEN <<last.keys>> ELSE LatchBefore)

\* a blocked Fx0A ran again with the keys of a snapshot that holds a pressed key
C24_Witness ==
    /\ RanWait
    /\ ReturnedOk
    /\ LatchBefore # <<>>
    /\ ~KeysDiffer
    /\ \E key \in 0..15 : LatchBefore[1][key]
    /\ last.prev.op_code = LastOp
    /\ cpu.program_counter = last.cpu.program_counter

\* C25: on the first step of a blocked Fx0A whose key state differs from the
\* snapshot, by a press or a release, Vx is the lowest differing index, the latch
\* is cleared and pc ends at the instruction following the Fx0A.
C25_ResolvesOnDifference ==
    (RanWait /\ KeysDiffer)
    => /\ ReturnedOk
       /\ cpu.v[X(LastOp)] = FirstOf(Differing(LatchBefore[1], last.keys))
       /\ cpu.is_key_pressed_temp = <<>>
       /\ cpu.program_counter = last.cpu.program_counter + 1

\* C26: between steps the latch holds a snapshot only if the instruction at pc is
\* an Fx0A that the last step executed and left unresolved; it is empty at boot and
\* after every resolution, and no other instruction sets or clears it.
C26_LatchOnlyMidWait ==
    /\ (result.panic = NoPanic /\ cpu.is_key_pressed_temp # <<>>)
       => /\ RanWait
          /\ ~KeysDiffer
          /\ last.cpu.program_counter = cpu.program_counter
          /\ read(mem, cpu.program_counter).val = LastOp
    /\ ~result.called => cpu.is_key_pressed_temp = <<>>
    /\ (RanWait /\ KeysDiffer) => cpu.is_key_pressed_temp = <<>>
    /\ (result.called /\ ~RanWait) => cpu.is_key_pressed_temp = LatchBefore

\* an Fx0A is mid-flight on a snapshot that holds a pressed key
C26_Witness ==
    /\ result.panic = NoPanic
    /\ cpu.is_key_pressed_temp # <<>>
    /\ \E key \in 0..15 : cpu.is_key_pressed_temp[1][key]
    /\ RanWait

\* the last run_cycle call fetched an Fx29
RanFont == result.called /\ LastOp # -1 /\ FirstNibble(LastOp) = 15 /\ Nn(LastOp) = 41

\* C27: after font loading, Fx29 with Vx = g in 0..15 sets I = 0x20 + 5 * g, and the
\* five cells read at I .. I + 4 hold the five rows FONT[g][0..4] of glyph g.
C27_GlyphAtI ==
    (RanFont /\ Before[X(LastOp)] <= 15)
    => /\ ReturnedOk
       /\ cpu.i = 32 + 5 * Before[X(LastOp)]
       /\ \A k \in 0..4 :
              read(mem, cpu.i + k).val = FONT[Before[X(LastOp)] + 1][k + 1]

\* the backing bytes of the cells below word address START, the font glyphs included
ReservedBytes == 0..(2 * START - 1)

\* C28: once the fonts are loaded, no step changes a cell of the font region or of
\* the reserved region below word address 0x200: Fx33 and Fx55 are refused or have
\* no effect there.
C28_ReservedIsReadOnly ==
    result.called
    => \A idx \in (DOMAIN mem.space \cup DOMAIN last.mem.space) \cap ReservedBytes :
          SpaceGet(mem.space, idx) = SpaceGet(last.mem.space, idx)

\* C29: a step changes the framebuffer only when it executes 00E0 or Dxyn: 00E0
\* leaves all 64x32 pixels unset, and every other instruction, every failing step
\* included, leaves every pixel unchanged.
C29_OnlyClsAndDrawTouchPixels ==
    result.called
    => IF LastOp = 224 THEN ReturnedOk /\ state = {}
       ELSE IF LastOp # -1 /\ FirstNibble(LastOp) = 13 THEN TRUE
       ELSE state = last.state

\* 00E0 ran over a framebuffer with lit pixels
C29_Witness ==
    result.called /\ LastOp = 224 /\ last.state # {} /\ state = {}

\* the last run_cycle call fetched a word 0nnn other than 00E0 and 00EE
RanMlSub == result.called /\ LastOp \in 0..4095 /\ LastOp \notin {224, 238}

\* what run_cycle leaves when it fetches 2nnn, with the nnn of the last word, in the
\* state the last step started from
AsCall ==
    LET h == call_sub(last.cpu, Nnn(LastOp))
    IN  [ok |-> h.ok /\ h.panic = NoPanic,
         cpu |-> [h.cpu EXCEPT !.program_counter = Advance(h.cpu.program_counter)]]

\* C30: a step executing a word 0nnn other than 00E0 and 00EE, nnn = 0 included,
\* succeeds and leaves registers, stack, pc, I, memory and framebuffer as a step
\* executing 2nnn from the same state would.
C30_MlSubIsCall ==
    RanMlSub
    => /\ ReturnedOk
       /\ cpu = AsCall.cpu
       /\ mem = last.mem
       /\ state = last.state

\* the last run_cycle call fetched a Cxnn
RanRandom == result.called /\ LastOp # -1 /\ FirstNibble(LastOp) = 12

\* the values r AND nn over every byte r
Masked(nn) == {BitAnd(r, nn) : r \in 0..255}

\* C31: after Cxnn, whatever byte was drawn, Vx has no bit set outside nn (nn = 0
\* gives Vx = 0), every value r AND nn for a byte r is a possible outcome of the
\* handler, and no other register changes.
C31_RandomIsMasked ==
    RanRandom
    => LET x == X(LastOp)
           nn == Nn(LastOp)
       IN  /\ ReturnedOk
           /\ BitAnd(cpu.v[x], 255 - nn) = 0
           /\ {random(last.cpu, x, nn, r).cpu.v[x] : r \in 0..255} = Masked(nn)
           /\ \A k \in Regs : k # x => cpu.v[k] = Before[k]

\* Cx0F drew a byte with bits inside and outside the mask over Vx = 255
C31_Witness ==
    /\ RanRandom
    /\ ReturnedOk
    /\ Nn(LastOp) = 15
    /\ Before[X(LastOp)] = 255
    /\ cpu.v[X(LastOp)] \notin {0, 15}

\* C32: once run_cycle has returned an error it is never called again for the rest
\* of the run: registers, memory and framebuffer keep the values they had when the
\* error was returned, while the host process keeps handling events.
C32_ErrorStopsStepping ==
    [][ReturnedErr => (/\ steps' = steps
                       /\ result' = result
                       /\ cpu' = cpu
                       /\ mem' = mem
                       /\ state' = state)]_vars

\* a key event was handled after the step that returned an error
C32_Witness == ReturnedErr /\ ~keep_trying /\ is_key_pressed # last.keys

\* C33: at every timer tick DT and ST each go down by one when non-zero and stay 0
\* otherwise, whatever instructions have run
C33_TimersCountDown ==
    [][ticks' # ticks =>
         /\ cpu'.dt = (IF cpu.dt > 0 THEN cpu.dt - 1 ELSE 0)
         /\ cpu'.st = (IF cpu.st > 0 THEN cpu.st - 1 ELSE 0)]_vars

\* a screen instruction has returned Ok
RanScreenOp == ReturnedOk /\ LastOp # -1 /\ (LastOp = 224 \/ FirstNibble(LastOp) = 13)

\* C34: after a step that changes the screen (00E0 or Dxyn) the drawn flag is true
C34_DrawnAfterScreenOp == RanScreenOp => cpu.drawn

\* the number of cells after I that the multi-cell instruction op touches: n - 1
\* for Dxyn, 2 for Fx33, x for Fx55 and Fx65; -1 for any other instruction
CellSpan(op) ==
    IF FirstNibble(op) = 13 THEN N(op) - 1
    ELSE IF FirstNibble(op) = 15 /\ Nn(op) = 51 THEN 2
    ELSE IF FirstNibble(op) = 15 /\ Nn(op) \in {85, 101} THEN X(op)
    ELSE -1

\* the last step ran a multi-cell instruction whose range I..I+k starts inside the
\* window and ends outside it
PartlyInside ==
    /\ result.called
    /\ LastOp # -1
    /\ CellSpan(LastOp) >= 0
    /\ last.cpu.i <= MAX
    /\ last.cpu.i + CellSpan(LastOp) > MAX

\* C35: a multi-cell instruction whose range I..I+k is only partly inside valid
\* memory performs none of its writes: registers, memory and screen are as before
C35_NoPartialWrite ==
    PartlyInside => (cpu.v = last.cpu.v /\ mem = last.mem /\ state = last.state)

\* the program counter the handler of the last step leaves when its arithmetic is
\* done over the integers, with no wrap: the popped address (00EE), nnn - 2 (0nnn,
\* 1nnn, 2nnn), V0 + nnn - 2 (Bnnn), pc + 2 (a taken skip), pc - 2 (a blocked
\* Fx0A), and pc itself otherwise
UnwrappedHandlerPc ==
    LET pc == last.cpu.program_counter
    IN  IF LastOp = 238 THEN last.cpu.stack[Len(last.cpu.stack)]
        ELSE IF FirstNibble(LastOp) = 11 THEN last.cpu.v[0] + Nnn(LastOp) - 2
        ELSE IF Redirects(LastOp) THEN Nnn(LastOp) - 2
        ELSE IF IsSkip(LastOp) /\ SkipCondition(LastOp, last.cpu.v, last.keys) THEN pc + 2
        ELSE IF StillBlocked THEN pc - 2
        ELSE pc

\* the panics of u16 arithmetic in a build with overflow checks
OverflowPanics == {"attempt to add with overflow", "attempt to subtract with overflow"}

\* the last step ran an instruction whose handler does arithmetic on pc only
ComputesPc == Redirects(LastOp) \/ IsSkip(LastOp) \/ (FirstNibble(LastOp) = 15 /\ Nn(LastOp) = 10)

\* C36: no program-counter computation wraps modulo 2^16: the handler leaves the
\* integer value of its computation, the advance adds 2 to it without overflow, and
\* no step dies on an overflow check of such a computation
C36_PcNeverWraps ==
    (result.called /\ LastOp # -1)
    => /\ ~(ComputesPc /\ result.panic \in OverflowPanics)
       /\ ReturnedOk => /\ last.handler_pc = UnwrappedHandlerPc
                         /\ cpu.program_counter = last.handler_pc + 2

\* the last step ran 0nnn, 1nnn, 2nnn or Bnnn to the end
RanRedirect == ReturnedOk /\ Redirects(LastOp) /\ LastOp # 238

\* C37: each redirecting or blocking handler, before the universal advance, leaves
\* pc one word short: nnn - 1 after 0nnn, 1nnn and 2nnn, nnn + V0 - 1 after Bnnn,
\* and the entry value less one after a blocked Fx0A
C37_HandlerOffsetIsOneWord ==
    /\ RanRedirect
       => last.handler_pc = (IF FirstNibble(LastOp) = 11
                             THEN Nnn(LastOp) + last.cpu.v[0] - 1
                             ELSE Nnn(LastOp) - 1)
    /\ (ReturnedOk /\ StillBlocked)
       => last.handler_pc = last.cpu.program_counter - 1

\* the last step ran Fx0A and resolved it
Resolved == RanWait /\ ReturnedOk /\ cpu.is_key_pressed_temp = <<>>

\* C38: the step that runs an Fx0A with the latch empty never resolves it, whatever
\* keys are held: it captures the snapshot, leaves pc on the Fx0A and writes no
\* register; a wait is resolved only by a later step of the same Fx0A, and the key
\* it reports is one whose state differs from the snapshot
C38_FirstStepOnlyCaptures ==
    /\ (RanWait /\ LatchBefore = <<>>)
       => /\ ReturnedOk
          /\ cpu.is_key_pressed_temp = <<last.keys>>
          /\ cpu.program_counter = last.cpu.program_counter
          /\ cpu.v = last.cpu.v
    /\ Resolved
       => /\ LatchBefore # <<>>
          /\ last.prev.ok
          /\ last.prev.op_code = LastOp
          /\ last.prev.cpu.program_counter = last.cpu.program_counter
          /\ LatchBefore[1][cpu.v[X(LastOp)]] # last.keys[cpu.v[X(LastOp)]]

\* an Fx0A began while a key was held
C38_Witness ==
    /\ RanWait
    /\ ReturnedOk
    /\ LatchBefore = <<>>
    /\ \E key \in 0..15 : last.keys[key]

\* the last run_cycle call fetched 6xnn, 7xnn or one of 8xy0 .. 8xy3
RanLogic ==
    /\ result.called
    /\ LastOp # -1
    /\ \/ FirstNibble(LastOp) \in {6, 7}
       \/ FirstNibble(LastOp) = 8 /\ N(LastOp) \in 0..3

\* bit k of the byte b
BitOf(b, k) == (b \div (2 ^ k)) % 2

\* the byte r is Vx after the instruction op on the registers v: the immediate
\* (6xnn), the sum modulo 256 (7xnn), Vy (8xy0), or bit by bit the OR, AND or XOR
\* of Vx and Vy (8xy1, 8xy2, 8xy3)
IsLogicValue(op, v, r) ==
    LET a == v[X(op)]
        b == v[Y(op)]
    IN  CASE FirstNibble(op) = 6 -> r = Nn(op)
          [] FirstNibble(op) = 7 -> r = (a + Nn(op)) % 256
          [] N(op) = 0 -> r = b
          [] N(op) = 1 -> \A k \in 0..7 : BitOf(r, k) = 1 <=> (BitOf(a, k) = 1 \/ BitOf(b, k) = 1)
          [] N(op) = 2 -> \A k \in 0..7 : BitOf(r, k) = 1 <=> (BitOf(a, k) = 1 /\ BitOf(b, k) = 1)
          [] OTHER -> \A k \in 0..7 : BitOf(r, k) = 1 <=> (BitOf(a, k) # BitOf(b, k))

\* C39: 7xnn sets Vx to (Vx + nn) mod 256, and 6xnn, 8xy0, 8xy1, 8xy2 and 8xy3 set
\* Vx to the immediate, Vy, or the OR / AND / XOR of Vx and Vy; each writes no other
\* register (VF keeps its value even when the addition overflows) and leaves I, the
\* stack and memory unchanged
C39_WritesOnlyVx ==
    RanLogic
    => /\ ReturnedOk
       /\ cpu.v[X(LastOp)] \in 0..255
       /\ IsLogicValue(LastOp, Before, cpu.v[X(LastOp)])
       /\ \A k \in Regs : k # X(LastOp) => cpu.v[k] = Before[k]
       /\ cpu.i = last.cpu.i
       /\ cpu.stack = last.cpu.stack
       /\ mem = last.mem

\* 7xnn overflowed on a register other than VF while VF, I and the stack were set
C39_Witness ==
    /\ RanLogic
    /\ ReturnedOk
    /\ FirstNibble(LastOp) = 7
    /\ X(LastOp) # 15
    /\ Before[X(LastOp)] + Nn(LastOp) >= 256
    /\ Before[15] = 5
    /\ cpu.v[15] = 5
    /\ cpu.i = 291
    /\ cpu.stack # <<>>

\* the last run_cycle call fetched Ex9E or ExA1
RanKeySkip ==
    result.called /\ LastOp # -1 /\ FirstNibble(LastOp) = 14 /\ Nn(LastOp) \in {158, 161}

\* C40: for every value of Vx in 0..255 a step executing Ex9E or ExA1 completes, as
\* a skip or as a non-skip; it never indexes the key snapshot outside its 16 entries
C40_KeySkipCompletes ==
    RanKeySkip
    => /\ ReturnedOk
       /\ last.handler_pc \in {last.cpu.program_counter, last.cpu.program_counter + 2}

=========================================================================
